---- MODULE Spec2Model ----
(***************************************************************************)
(* Model of checker.py: a sequential batch job that fetches a list of web  *)
(* pages, normalises and hashes their text, archives snapshots, appends    *)
(* change records to a bounded log and regenerates an RSS feed.            *)
(*                                                                         *)
(* One invocation of main() is modelled as MainStart (the three loads),    *)
(* one MainIterate per entry of urls.json (a whole loop body, fetch        *)
(* included) and MainFinish (the persist-and-publish tail).  The remote    *)
(* servers, the wall clock and the disk are the environment: what they     *)
(* answer is chosen nondeterministically at the moment main() asks.  The   *)
(* environment raises at most one exception (a failed request or a failed  *)
(* write) in a behaviour.                                                  *)
(***************************************************************************)
EXTENDS Integers, Sequences, FiniteSets, TLC

\* ------------------------------------------------------------------ bounds
\* Number of invocations of main() explored.
MaxRuns == 2
\* The float clock has TicksPerSec distinguishable values per integer second.
TicksPerSec == 2
\* Clock ticks that may elapse over the whole behaviour.
MaxTicks == 2
\* Stands for the 1000 of `[:1000]` (checker.py:177), scaled down so that
\* truncation happens within MaxRuns runs.
LogLimit == 2
\* Stands for the 100 of `[:100]` (checker.py:71), scaled down likewise.
FeedLimit == 1

\* --------------------------------------------------------- program constants
\* `if i > 20` (checker.py:153): indexes 0..20 of the diff are kept.
DiffPreviewLast == 20

\* ------------------------------------------------------------ Python values
\* None / an absent dict key is the empty tuple, a present value a 1-tuple.
None == <<>>
Some(x) == <<x>>
Truthy(o) == o # None

\* --------------------------------------------------------------- urls.json
\* Two targets with unique ids: "a" is scoped by a selector and has a title
\* with markup characters, "b" has neither selector nor title.
urls ==
  << [id |-> "a", url |-> "https://example.com/x", title |-> Some("A<B"),
      selector |-> Some("#main")],
     [id |-> "b", url |-> "https://example.com/y?p&q", title |-> None,
      selector |-> None] >>

Ids == {urls[i].id : i \in 1..Len(urls)}

\* ------------------------------------------------------------ remote pages
\* A page is raw HTML.  What matters of it: the text outside the element
\* the selector "#main" matches, the text inside it (None when no element
\* matches) and the content of its <script> elements.  "PE" is the body of
\* an error response, "" an empty body.
Pages == {"P1", "P2", "P3"}

PageOuter(p) ==
  CASE p = "" -> <<>>
    [] p = "PE" -> <<"Error">>
    [] OTHER -> <<"Nav">>
PageMain(p) == IF p \in {"P1", "P2"} THEN Some(<<"Hello">>) ELSE None
PageScript(p) == IF p = "P2" THEN <<"v2">> ELSE <<"v1">>

\* The pages the server behind each url holds over time.
PagesAt(url) ==
  IF url = "https://example.com/x" THEN {"P1", "P2", "P3"} ELSE {"P1", "P3"}

\* A normalised text is its sequence of lines; "" is the empty sequence.
\* A selector that matches nothing gives ""; otherwise the text of the
\* matched element, or of the whole page without a selector.  The content
\* of <script> elements (PageScript) never reaches the text.
clean_html(html, selector) ==
  IF selector # None
    THEN IF PageMain(html) = None THEN <<>> ELSE PageMain(html)[1]
    ELSE PageOuter(html) \o (IF PageMain(html) = None THEN <<>> ELSE PageMain(html)[1])

\* SHA-256 taken as collision free: the digest determines the text.
sha256(s) == [digest |-> s]

\* Validators an origin server attaches to a page.
ETagOf(p) == [etag |-> p]
LastModifiedOf(p) == [modified |-> p]

\* ------------------------------------------------------------------- clock
Epoch == TicksPerSec
MaxTime == Epoch + MaxTicks
\* int(ts)
IntSec(ts) == ts \div TicksPerSec


\* ------------------------------------------------------------ dicts, files
\* d[k] = v on a Python dict, and write_text on a directory: both replace
\* whatever the key held.
SetItem(d, k, v) == [x \in (DOMAIN d) \cup {k} |-> IF x = k THEN v ELSE d[x]]
EmptyDict == [x \in {} |-> None]

\* state.get(uid, {}) followed by prev.get(field): every field of {} is None.
NoMeta == [hash |-> None, etag |-> None, last_modified |-> None,
           last_text_file |-> None]
GetMeta(st, uid) == IF uid \in DOMAIN st THEN st[uid] ELSE NoMeta

\* f"{int(ts)}.txt" / f"{int(ts)}.html", and the path snap_dir / name.
SnapName(ts, ext) == [stem |-> IntSec(ts), ext |-> ext]
SnapPath(uid, name) == [uid |-> uid, name |-> name]

\* load_json / save_json: json.dumps then json.loads gives back dicts, lists,
\* strings, floats and None unchanged; a file that does not exist loads as
\* the default (state.json is an empty dict, changes.json an empty list).
load_json(file, default) == IF file = None THEN default ELSE file[1]
save_json(obj) == Some(obj)

\* ------------------------------------------------------------- the fetcher
OkStatuses == {200, 299}
OtherStatuses == {300, 404, 500}

\* Headers the origin server sends with page p: P1 carries both validators,
\* P2 only an ETag, P3 neither.
PageETag(p) == IF p \in {"P1", "P2"} THEN Some(ETagOf(p)) ELSE None
PageLastModified(p) == IF p = "P1" THEN Some(LastModifiedOf(p)) ELSE None

\* The request headers fetch_with_conditionals builds from prev_meta.
ConditionalHeaders(prev_meta) ==
  [if_none_match |-> IF Truthy(prev_meta.etag) THEN prev_meta.etag ELSE None,
   if_modified_since |-> IF Truthy(prev_meta.last_modified)
                           THEN prev_meta.last_modified ELSE None]

\* The responses requests.get can return from a server holding page p: a
\* 2xx with the page, any other status, or 304 when a validator sent with
\* the request names the page the server holds.
fetch_with_conditionals(p, prev_meta) ==
  LET h == ConditionalHeaders(prev_meta)
      matches == \/ (h.if_none_match # None /\ h.if_none_match = PageETag(p))
                 \/ (h.if_modified_since # None
                       /\ h.if_modified_since = PageLastModified(p))
  IN  {[status_code |-> s, text |-> p, etag |-> PageETag(p),
        last_modified |-> PageLastModified(p)] : s \in OkStatuses}
      \cup {[status_code |-> s, text |-> "PE", etag |-> None,
             last_modified |-> None] : s \in OtherStatuses}
      \cup (IF matches
              THEN {[status_code |-> 304, text |-> "", etag |-> None,
                     last_modified |-> None]}
              ELSE {})

\* The second `continue` left out: only 304 is skipped.
IsSkipped_Only304(status_code) == status_code = 304

\* Lines 122-125: the two `continue`s.
IsSkipped(status_code) ==
  \/ status_code = 304
  \/ ~(200 <= status_code /\ status_code < 300)

\* Every successful fetch taken for a change.
HashDiffers_Always(prev, h) == TRUE

\* Line 133: prev.get("hash") != h.
HashDiffers(prev, h) == prev.hash # Some(h)

\* ------------------------------------------------------------ diff summary
DiffLine(tag, line) == [tag |-> tag, line |-> line]
Tagged(tag, lines) == [i \in 1..Len(lines) |-> DiffLine(tag, lines[i])]
Min(a, b) == IF a <= b THEN a ELSE b

CommonPrefix(a, b) ==
  Cardinality({k \in 1..Min(Len(a), Len(b)) :
                 \A i \in 1..k : a[i] = b[i]})
CommonSuffix(a, b, pre) ==
  Cardinality({k \in 1..(Min(Len(a), Len(b)) - pre) :
                 \A i \in 0..(k - 1) : a[Len(a) - i] = b[Len(b) - i]})

\* difflib.unified_diff(a, b, fromfile="before", tofile="after", lineterm=""):
\* nothing when a = b; otherwise the two file headers, the hunk header and
\* the lines of the hunk.  The texts here differ by one contiguous edit and
\* fit in the three lines of context, so the hunk is the common prefix, the
\* removed lines, the added lines and the common suffix.
unified_diff(a, b) ==
  IF a = b THEN <<>>
  ELSE LET pre == CommonPrefix(a, b)
           suf == CommonSuffix(a, b, pre)
       IN  << DiffLine("---", "before"), DiffLine("+++", "after"),
              DiffLine("@@", "") >>
           \o Tagged(" ", SubSeq(a, 1, pre))
           \o Tagged("-", SubSeq(a, pre + 1, Len(a) - suf))
           \o Tagged("+", SubSeq(b, pre + 1, Len(b) - suf))
           \o Tagged(" ", SubSeq(a, Len(a) - suf + 1, Len(a)))

ContentChanged == << DiffLine("", "Content changed.") >>

\* Lines 151-156: the first DiffPreviewLast + 1 lines, then one marker line.
Preview(diff) ==
  IF Len(diff) > DiffPreviewLast + 1
    THEN SubSeq(diff, 1, DiffPreviewLast + 1)
           \o << DiffLine("", "... (diff truncated)") >>
    ELSE diff

\* Line 146: `if old_text:` is false for None and for the empty string.
OldTextUsable(old_text) == old_text # None /\ old_text[1] # <<>>

\* Lines 142-157.  files is the snapshot store after lines 139-140 ran.
Summary(files, uid, prev, text) ==
  LET old_text ==
        IF Truthy(prev.last_text_file)
             /\ SnapPath(uid, prev.last_text_file[1]) \in DOMAIN files
          THEN Some(files[SnapPath(uid, prev.last_text_file[1])])
          ELSE None
  IN  IF OldTextUsable(old_text)
        THEN LET preview == Preview(unified_diff(old_text[1], text))
             IN  IF preview # <<>> THEN preview ELSE ContentChanged
        ELSE ContentChanged

\* ------------------------------------------------------------ the change log
\* sorted(changes, key=timestamp, reverse=True): stable, so records of equal
\* timestamp keep their order.
InsertDesc(s, c) ==
  LET k == Cardinality({i \in 1..Len(s) : s[i].timestamp >= c.timestamp})
  IN  SubSeq(s, 1, k) \o <<c>> \o SubSeq(s, k + 1, Len(s))

RECURSIVE SortedDesc(_)
SortedDesc(cs) ==
  IF cs = <<>> THEN <<>>
  ELSE InsertDesc(SortedDesc(SubSeq(cs, 1, Len(cs) - 1)), cs[Len(cs)])

Take(s, n) == SubSeq(s, 1, Min(n, Len(s)))

\* The slice without the sort: the first LogLimit records in list order.
SortTruncate_NoSort(cs) == Take(cs, LogLimit)

\* Line 177.
SortTruncate(cs) == Take(SortedDesc(cs), LogLimit)

\* ------------------------------------------------------------------ the feed
\* rfc2822_now(ts): `ts or time.time()`, printed to the second.
rfc2822_now(ts, clock) == IntSec(IF ts # 0 THEN ts ELSE clock)

\* esc: & < > replaced by entities; any other string is left as it is.
esc(s) ==
  CASE s = "A<B changed" -> "A&lt;B changed"
    [] s = "https://example.com/y?p&q" -> "https://example.com/y?p&amp;q"
    [] s = "https://example.com/y?p&q changed"
         -> "https://example.com/y?p&amp;q changed"
    [] OTHER -> s

\* f"{c['title']} changed"
TitleChanged(title) ==
  CASE title = "A<B" -> "A<B changed"
    [] title = "https://example.com/y?p&q" -> "https://example.com/y?p&q changed"
    [] OTHER -> title

FeedItem(c, clock) ==
  [title |-> esc(TitleChanged(c.title)),
   link |-> esc(c.url),
   guid |-> [id |-> c.id, sec |-> IntSec(c.timestamp)],
   pubDate |-> rfc2822_now(c.timestamp, clock),
   description |-> [i \in 1..Len(c.summary) |->
                      DiffLine(c.summary[i].tag, esc(c.summary[i].line))]]

\* generate_feed: the document written to feed.xml.
generate_feed(cs, clock) ==
  LET top == Take(SortedDesc(cs), FeedLimit)
  IN  [items |-> [i \in 1..Len(top) |-> FeedItem(top[i], clock)],
       lastBuildDate |-> rfc2822_now(0, clock)]

\* ===================================================================== state
VARIABLES
  \* the files under ROOT
  stateFile,        \* data/state.json: None, or Some(dict id -> TargetState)
  changesFile,      \* data/changes.json: None, or Some(list of ChangeRecord)
  snaps,            \* data/snapshots: path -> content of the file
  feedFile,         \* feed.xml: None, or Some(feed document)
  indexFile,        \* index.html exists
  \* the locals of main()
  pc,               \* "idle" (no process), "loop" (inside main)
  idx,              \* position of the for loop in urls, 1-based
  state, changes, something_changed,
  \* the environment
  now,              \* the wall clock, in ticks
  runs,             \* invocations of main() so far
  fault,            \* the exception the environment has raised: "none",
                    \* "fetch" (requests.get) or "disk" (write_text)
  \* history, written but never read by the program
  outcome,          \* how the latest run ended, "running" while it runs
  prevOutcome,      \* how the run before it ended
  served,           \* id -> text of the page behind this run's 2xx/304 response
  prevServed,       \* the same for the run before
  skipped,          \* ids whose response in this run was 304 or not 2xx
  atStart,          \* the files as they were when this run started
  wrote,            \* names of the JSON files this run wrote
  detections,       \* every <<id, hash>> line 133 found different, in order
  last2xx,          \* id -> text of the latest 2xx response of any run
  lastChangeSnap,   \* id -> .txt path written by the latest detected change
  writeCount        \* path -> number of write_text calls that hit it

files == <<stateFile, changesFile, snaps, feedFile, indexFile>>
locals == <<pc, idx, state, changes, something_changed>>
env == <<now, runs, fault>>
history == <<outcome, prevOutcome, served, prevServed, skipped, atStart, wrote,
             detections, last2xx, lastChangeSnap, writeCount>>
vars == <<files, locals, env, history>>

NoneServed == [t \in Ids |-> None]

\* A fresh checkout: no data files, no feed, the clock at the first second.
Init ==
  /\ stateFile = None /\ changesFile = None /\ snaps = EmptyDict
  /\ feedFile = None /\ indexFile = FALSE
  /\ pc = "idle" /\ idx = 1 /\ state = EmptyDict /\ changes = <<>>
  /\ something_changed = FALSE
  /\ now = Epoch /\ runs = 0 /\ fault = "none"
  /\ outcome = "none" /\ prevOutcome = "none"
  /\ served = NoneServed /\ prevServed = NoneServed
  /\ skipped = {}
  /\ atStart = [stateFile |-> None, changesFile |-> None, snaps |-> EmptyDict,
                feedFile |-> None]
  /\ wrote = {}
  /\ detections = <<>>
  /\ last2xx = NoneServed
  /\ lastChangeSnap = NoneServed
  /\ writeCount = EmptyDict

\* The process ends (normally or by an uncaught exception): its locals go.
Exit(how) ==
  /\ pc' = "idle" /\ idx' = 1 /\ state' = EmptyDict /\ changes' = <<>>
  /\ something_changed' = FALSE
  /\ outcome' = how

\* ----------------------------------------------------------- lines 109-112
MainStart ==
  /\ pc = "idle"
  /\ runs < MaxRuns
  /\ runs' = runs + 1
  /\ pc' = "loop" /\ idx' = 1
  /\ state' = load_json(stateFile, EmptyDict)
  /\ changes' = load_json(changesFile, <<>>)
  /\ something_changed' = FALSE
  /\ outcome' = "running" /\ prevOutcome' = outcome
  /\ served' = NoneServed /\ prevServed' = served
  /\ skipped' = {}
  /\ atStart' = [stateFile |-> stateFile, changesFile |-> changesFile,
                 snaps |-> snaps, feedFile |-> feedFile]
  /\ wrote' = {}
  /\ UNCHANGED <<files, now, fault, detections, last2xx, lastChangeSnap,
                 writeCount>>

\* ----------------------------------------------------------- lines 114-174
\* requests.get raises (timeout, connection error): nothing in main()
\* catches it, the process dies with the traceback.
FetchRaises ==
  /\ pc = "loop" /\ idx <= Len(urls)
  /\ fault = "none"
  /\ fault' = "fetch"
  /\ Exit("fetch_error")
  /\ UNCHANGED <<files, now, runs, prevOutcome, served, prevServed, skipped, atStart,
                 wrote, detections, last2xx, lastChangeSnap, writeCount>>

\* Lines 122-125: 304 or a status outside 200..299.
Skip(resp) ==
  /\ IsSkipped(resp.status_code)
  /\ idx' = idx + 1
  /\ UNCHANGED <<files, pc, state, changes, something_changed, now, fault,
                 outcome, lastChangeSnap, writeCount>>

\* Lines 168-174: same hash, the validators are refreshed in memory.
Unchanged(uid, prev, resp, h) ==
  /\ ~HashDiffers(prev, h)
  /\ state' = SetItem(state, uid,
       [hash |-> Some(h),
        etag |-> IF Truthy(resp.etag) THEN resp.etag ELSE prev.etag,
        last_modified |-> IF Truthy(resp.last_modified)
                            THEN resp.last_modified ELSE prev.last_modified,
        last_text_file |-> prev.last_text_file])
  /\ idx' = idx + 1
  /\ UNCHANGED <<files, pc, changes, something_changed, now, fault, outcome,
                 lastChangeSnap, writeCount>>

Bump(wc, path) ==
  SetItem(wc, path, IF path \in DOMAIN wc THEN wc[path] + 1 ELSE 1)

\* Lines 133-167: a different hash.  ts is what time.time() returns; disk is
\* "ok", or the write_text call that raises OSError.
Changed(entry, prev, resp, text, h, ts, disk) ==
  LET uid == entry.id
      title == IF entry.title # None THEN entry.title[1] ELSE entry.url
      txt == SnapPath(uid, SnapName(ts, "txt"))
      html == SnapPath(uid, SnapName(ts, "html"))
      withTxt == SetItem(snaps, txt, text)
      withBoth == SetItem(withTxt, html, <<resp.text>>)
  IN
  /\ HashDiffers(prev, h)
  /\ now' = ts
  /\ disk = "ok" \/ fault = "none"
  /\ fault' = IF disk = "ok" THEN fault ELSE "disk"
  /\ UNCHANGED <<stateFile, changesFile, feedFile, indexFile>>
  /\ \/ /\ disk = "txt"
        /\ Exit("disk_error")
        /\ UNCHANGED <<snaps, lastChangeSnap, writeCount>>
     \/ /\ disk = "html"
        /\ snaps' = withTxt
        /\ lastChangeSnap' = [lastChangeSnap EXCEPT ![uid] = Some(txt)]
        /\ writeCount' = Bump(writeCount, txt)
        /\ Exit("disk_error")
     \/ /\ disk = "ok"
        /\ snaps' = withBoth
        /\ lastChangeSnap' = [lastChangeSnap EXCEPT ![uid] = Some(txt)]
        /\ writeCount' = Bump(Bump(writeCount, txt), html)
        /\ something_changed' = TRUE
        /\ changes' = Append(changes,
             [id |-> uid, url |-> entry.url, title |-> title,
              timestamp |-> ts, hash |-> h,
              summary |-> Summary(withBoth, uid, prev, text)])
        /\ state' = SetItem(state, uid,
             [hash |-> Some(h), etag |-> resp.etag,
              last_modified |-> resp.last_modified,
              last_text_file |-> Some(SnapName(ts, "txt"))])
        /\ idx' = idx + 1
        /\ UNCHANGED <<pc, outcome>>

\* What the history keeps of one request: read off the response itself, not
\* off the branch main() took.  held is the text of the page the server
\* holds, stored the hash main() had for the target when it asked.
Observe(uid, held, stored, resp) ==
  LET success == resp.status_code \in 200..299
      notModified == resp.status_code = 304
  IN
  /\ skipped' = IF success THEN skipped ELSE skipped \cup {uid}
  /\ served' = IF success \/ notModified
                 THEN [served EXCEPT ![uid] = Some(held)] ELSE served
  /\ last2xx' = IF success THEN [last2xx EXCEPT ![uid] = Some(held)]
                           ELSE last2xx
  /\ detections' = IF success /\ stored # Some(sha256(held))
                     THEN Append(detections, <<uid, sha256(held)>>)
                     ELSE detections
  /\ UNCHANGED <<runs, prevOutcome, prevServed, atStart, wrote>>

\* One pass of the loop body for urls[idx], for a server that holds page p
\* and answers with resp.
MainIterate ==
  /\ pc = "loop" /\ idx <= Len(urls)
  /\ LET entry == urls[idx]
         prev == GetMeta(state, entry.id)
     IN  \E p \in PagesAt(entry.url) : \E resp \in fetch_with_conditionals(p, prev) :
           /\ Observe(entry.id, clean_html(p, entry.selector), prev.hash, resp)
           /\ \/ Skip(resp)
              \/ /\ ~IsSkipped(resp.status_code)
                 /\ LET text == clean_html(resp.text, entry.selector)
                        h == sha256(text)
                    IN  \/ Unchanged(entry.id, prev, resp, h)
                        \/ \E ts \in now..MaxTime :
                             \E disk \in {"ok", "txt", "html"} :
                               Changed(entry, prev, resp, text, h, ts, disk)

\* ----------------------------------------------------------- lines 176-184
\* ensure_index_html: written only when absent.
ensure_index_html == indexFile' = TRUE

\* The tail of main().  disk is "ok" or the first write that raises; clock
\* is the time.time() of generate_feed.
MainFinish ==
  /\ pc = "loop" /\ idx > Len(urls)
  /\ \E clock \in now..MaxTime :
     \E disk \in {"ok", "changes", "state", "feed"} :
       LET final == IF something_changed THEN SortTruncate(changes) ELSE changes
           reached(step) ==
             \/ disk = "ok"
             \/ step = "changes" /\ disk \in {"state", "feed"}
             \/ step = "state" /\ disk = "feed"
       IN
       /\ something_changed \/ disk \in {"ok", "feed"}
       /\ disk = "ok" \/ fault = "none"
       /\ fault' = IF disk = "ok" THEN fault ELSE "disk"
       /\ changesFile' = IF something_changed /\ reached("changes")
                           THEN save_json(final) ELSE changesFile
       /\ stateFile' = IF something_changed /\ reached("state")
                         THEN save_json(state) ELSE stateFile
       /\ wrote' = IF ~something_changed THEN {}
                   ELSE {f \in {"changes", "state"} : reached(f)}
       /\ IF disk \in {"ok", "feed"} THEN ensure_index_html
                                     ELSE UNCHANGED indexFile
       /\ IF disk = "ok"
            THEN /\ feedFile' = Some(generate_feed(final, clock))
                 /\ now' = clock
            ELSE UNCHANGED <<feedFile, now>>
       /\ Exit(IF disk = "ok" THEN "done" ELSE "disk_error")
  /\ UNCHANGED <<snaps, runs, prevOutcome, served, prevServed, skipped, atStart,
                 detections, last2xx, lastChangeSnap, writeCount>>

Next == MainStart \/ FetchRaises \/ MainIterate \/ MainFinish

Spec == Init /\ [][Next]_vars

\* ==================================================================== claims
\* What is on disk, as main() would load it.
PersistedState == load_json(stateFile, EmptyDict)
PersistedLog == load_json(changesFile, <<>>)
StateAtStart == load_json(atStart.stateFile, EmptyDict)
LogAtStart == load_json(atStart.changesFile, <<>>)
Ended == pc = "idle" /\ outcome \in {"done", "fetch_error", "disk_error"}
Count(seq, x) == Cardinality({i \in 1..Len(seq) : seq[i] = x})
SnapsOf(fs, uid) == {path \in DOMAIN fs : path.uid = uid}

\* C1: a request that times out or fails at the network level skips only
\* its target; it never ends the run.
C1_FetchFailureNeverAborts == outcome # "fetch_error"

\* C2: a target answered with 304 or with a status outside 200-299 keeps its
\* TargetState entry as the run found it (in memory and on disk), gets no
\* ChangeRecord and no snapshot file in that run, and the loop moves on to
\* the next target.
C2_SkippedUntouched ==
  \A uid \in skipped :
    /\ GetMeta(PersistedState, uid) = GetMeta(StateAtStart, uid)
    /\ pc = "loop" => GetMeta(state, uid) = GetMeta(StateAtStart, uid)
    /\ \A i \in 1..Len(PersistedLog) :
         PersistedLog[i].id = uid =>
           Count(PersistedLog, PersistedLog[i]) <= Count(LogAtStart, PersistedLog[i])
    /\ pc = "loop" =>
         \A i \in 1..Len(changes) :
           changes[i].id = uid =>
             Count(changes, changes[i]) <= Count(LogAtStart, changes[i])
    /\ SnapsOf(snaps, uid) = SnapsOf(atStart.snaps, uid)
    /\ \A path \in SnapsOf(snaps, uid) : snaps[path] = atStart.snaps[path]

C2_SkipMovesOn ==
  (pc = "loop" /\ skipped' # skipped) => (pc' = "loop" /\ idx' = idx + 1)

C2_SkipLeavesTargetAlone == []C2_SkippedUntouched /\ [][C2_SkipMovesOn]_vars

\* Witness of C2: a finished run that skipped a target it already had a
\* state entry and a snapshot for, while it recorded a change of another.
C2_Witness ==
  /\ pc = "idle" /\ outcome = "done" /\ wrote = {"changes", "state"}
  /\ \E uid \in skipped :
       /\ uid \in DOMAIN PersistedState
       /\ SnapsOf(snaps, uid) # {}
       /\ \E i \in 1..Len(PersistedLog) : PersistedLog[i].id = uid

\* The <<id, hash>> of every record of a log.
Pairs(log) == [i \in 1..Len(log) |-> <<log[i].id, log[i].hash>>]

\* C3: while the log is below its bound, the persisted change log holds a
\* record for target t with hash h exactly when some run got a 2xx response
\* for t whose hash h differed from the stored one, and one record per such
\* detection.  (Stated for the behaviours in which no write fails.)
C3_RecordIffDetected ==
  (Ended /\ fault # "disk" /\ Len(detections) <= LogLimit) =>
    \A i \in 1..Len(detections) :
      Count(Pairs(PersistedLog), detections[i]) = Count(detections, detections[i])

\* C4: after every run, the persisted hash of each target that ever got a
\* 2xx response is the SHA-256 of the normalised text of its latest 2xx
\* response.  (Stated for the behaviours in which no write fails.)
C4_HashOfLatest2xx ==
  (Ended /\ fault # "disk") =>
    \A uid \in Ids :
      last2xx[uid] # None =>
        /\ uid \in DOMAIN PersistedState
        /\ PersistedState[uid].hash = Some(sha256(last2xx[uid][1]))

\* The records of one target, in log order.
RECURSIVE RecordsOf(_, _)
RecordsOf(log, uid) ==
  IF log = <<>> THEN <<>>
  ELSE (IF Head(log).id = uid THEN <<Head(log)>> ELSE <<>>)
         \o RecordsOf(Tail(log), uid)

\* C5: a run that a failed write aborts does not leave changes.json with
\* this run's records next to a state.json with the old hashes, and no
\* later run records the same content change of a target a second time.
C5_NoPartialPersist ==
  Ended =>
    /\ ~(changesFile # atStart.changesFile /\ stateFile = atStart.stateFile)
    /\ \A uid \in Ids :
         LET rs == RecordsOf(PersistedLog, uid)
         IN  \A i \in 1..(Len(rs) - 1) : rs[i].hash # rs[i + 1].hash

\* C6: a snapshot file is written once: no later change writes the .txt or
\* .html file of an earlier one again.  (Stated for the behaviours in which
\* no exception is raised, so that it does not rest on an aborted run.)
C6_SnapshotWrittenOnce ==
  fault = "none" => \A path \in DOMAIN writeCount : writeCount[path] <= 1

\* C7: a run that follows a run that ran to its end and is served, for every target,
\* the same content as that run (as 304 or as a 2xx body of the same
\* normalised text) adds no ChangeRecord, writes no snapshot file, writes
\* neither changes.json nor state.json, and leaves the items of the feed
\* as the first run published them.
SameContentTwice ==
  /\ pc = "idle" /\ outcome = "done" /\ prevOutcome = "done"
  /\ \A uid \in Ids : served[uid] # None /\ served[uid] = prevServed[uid]

C7_SecondRunIdempotent ==
  SameContentTwice =>
    /\ changesFile = atStart.changesFile
    /\ stateFile = atStart.stateFile
    /\ snaps = atStart.snaps
    /\ wrote = {}
    /\ feedFile # None /\ atStart.feedFile # None
    /\ feedFile[1].items = atStart.feedFile[1].items

\* Witness of C7: two such runs, the first of which recorded changes.
C7_Witness ==
  /\ SameContentTwice
  /\ Len(PersistedLog) = Len(urls)
  /\ Len(feedFile[1].items) = FeedLimit
  /\ feedFile[1].lastBuildDate # atStart.feedFile[1].lastBuildDate

\* C8: every changes.json main() writes holds at most LogLimit records in
\* descending order of timestamp, and they are the LogLimit records of
\* largest timestamp among those loaded at the start of the run and those
\* the run appended.
IsDescending(log) ==
  \A i \in 1..Len(log) : \A j \in i..Len(log) :
    log[i].timestamp >= log[j].timestamp

C8_LogBounded ==
  changesFile # None =>
    /\ Len(PersistedLog) <= LogLimit
    /\ IsDescending(PersistedLog)

C8_WriteKeepsNewest ==
  (pc = "loop" /\ "changes" \in wrote') =>
    LET written == changesFile'[1]
    IN  /\ SubSeq(changes, 1, Len(LogAtStart)) = LogAtStart
        /\ Len(written) = Min(Len(changes), LogLimit)
        /\ \A i \in 1..Len(written) :
             Count(written, written[i]) <= Count(changes, written[i])
        /\ \A i \in 1..Len(changes) :
             Count(written, changes[i]) < Count(changes, changes[i]) =>
               \A j \in 1..Len(written) :
                 written[j].timestamp >= changes[i].timestamp

C8_LogSortedTruncated == []C8_LogBounded /\ [][C8_WriteKeepsNewest]_vars

\* Witness of C8: a written log from which the slice dropped a record.
C8_Witness ==
  /\ pc = "idle" /\ fault = "none" /\ "changes" \in wrote
  /\ Len(detections) > LogLimit
  /\ Len(PersistedLog) = LogLimit
  /\ PersistedLog[1].timestamp > PersistedLog[LogLimit].timestamp

\* C9: on a detected change of a target whose last_text_file names a file
\* that exists, whatever that file holds, the summary is the unified diff
\* of that text and the current text; "Content changed." appears only when
\* the diff is empty.
C9_DiffWheneverSnapshotExists ==
  (pc = "loop" /\ Len(changes') = Len(changes) + 1) =>
    LET uid == urls[idx].id
        prev == GetMeta(state, uid)
        rec == changes'[Len(changes')]
        old == SnapPath(uid, prev.last_text_file[1])
    IN  (prev.last_text_file # None /\ old \in DOMAIN snaps') =>
          LET diff == unified_diff(snaps'[old], rec.hash.digest)
          IN  rec.summary = IF diff # <<>> THEN Preview(diff) ELSE ContentChanged

C9_SummaryIsDiff == [][C9_DiffWheneverSnapshotExists]_vars

\* C10: in the persisted state.json the last_text_file of a target is absent
\* or names an existing snapshot file of that target, the one the latest
\* detected change of the target wrote.  (Stated for the behaviours in which
\* no write fails.)
C10_PointerIsLatestSnapshot ==
  (Ended /\ fault # "disk") =>
    \A uid \in DOMAIN PersistedState :
      LET f == PersistedState[uid].last_text_file
      IN  f # None =>
            /\ SnapPath(uid, f[1]) \in DOMAIN snaps
            /\ lastChangeSnap[uid] = Some(SnapPath(uid, f[1]))

====
